---- MODULE Spec2Model ----
(***************************************************************************)
(* Model of src/app.py: the event poster generator.                        *)
(*                                                                         *)
(* create_event_image is modelled as a pipeline of steps (pc), one per     *)
(* block of the function; fetch_background_image and add_footer are        *)
(* operators applied inside the step that calls them.  get_icon works on   *)
(* files that other sessions write as well and is modelled line by line.   *)
(*                                                                         *)
(* Numbers: the source mixes ints and floats.  Vertical quantities that    *)
(* involve the factors 0.2 and 0.25 are kept exactly, in units of 1/40 px  *)
(* (YScale); text widths are kept in units of 1/UnitsPerEm px.             *)
(***************************************************************************)
EXTENDS Integers, Sequences, FiniteSets, TLC

VARIABLES
    pc,                \* position inside create_event_image and main
    event_name,        \* argument: the raw title, a sequence of raw lines
    query,             \* argument: background search term
    page,              \* argument: result page (also the photo selector)
    per_page,          \* argument of fetch_background_image
    net,               \* what the remote side answered to the last fetch
    fetched,           \* return value of fetch_background_image
    background,        \* the canvas being drawn on
    iconFile,          \* assets/icons/<name>.png on disk (persists)
    event_name_lines,  \* title lines after line 409 / after the re-wrap
    font_size,         \* title font size
    usedWrap,          \* the block at lines 443-466 ran
    st_errors,         \* messages shown through st.error
    logo,              \* state of LOGO_PATH seen by add_footer
    result,            \* return value of create_event_image
    font_fault,        \* where a load of FONT_PATH failed in this render
    variant,           \* main: the variant being rendered (0 white, n page n)
    keywords,          \* main: background_keywords
    auto_publish,      \* main: the checkbox
    images,            \* main: the list `images`
    webhook,           \* main: what send_webhook returned
    first,             \* the image an earlier, identical call returned
    gi,                \* per session: the get_icon call it is in (Self is the
                       \* session that runs create_event_image)
    iconLog,           \* downloads and file writes of the sessions in gi
    otherWriters,      \* per icon: other sessions are past line 511 of
                       \* get_icon, having found the file absent
    clock_icon         \* local of create_event_image, line 366

mainVars == <<variant, keywords, auto_publish, images, webhook>>

vars == <<pc, event_name, query, page, per_page, net, fetched, background,
          iconFile, event_name_lines, font_size, usedWrap, st_errors, logo,
          result, font_fault, mainVars, first, gi, iconLog, otherWriters, clock_icon>>

\* the arguments and local variables of create_event_image and what it
\* reports
renderVars == <<pc, event_name, query, page, per_page, net, fetched, background,
                event_name_lines, font_size, usedWrap, st_errors, logo, result,
                font_fault>>

----------------------------------------------------------------------------
(* Bounds of the model *)

MaxLines == 4        \* lines of a title of one-word lines
MaxWords == 4        \* words of a one-line title
MaxTallLines == 10   \* lines of a title made of one repeated one-word line
MaxPosterLines == 2  \* lines of a title in the full pipeline
MaxPhotos == 3       \* length of the photo list of a search response
MaxPage == 3         \* page argument (main uses range(1, 4))
MaxFetchPage == 5    \* page argument when fetch_background_image is called alone
MaxPerPage == 3      \* per_page argument when it is called alone

----------------------------------------------------------------------------
(* Constants of the program *)

IMAGE_SIZE == <<1080, 1080>>
FOOTER_HEIGHT == 160
LOGO_HEIGHT == 120
DefaultPerPage == 15
initial_font_size == 110
min_font_size == 40
FontStep == 4
border_width == 3
accent_height == 6

None == [kind |-> "None"]
NoQuery == "<None>"

\* int(IMAGE_SIZE[0] * 0.85) etc.: the products are 918.0, 702.0 and 151.2
rect_width == (IMAGE_SIZE[1] * 85) \div 100
rect_height == (IMAGE_SIZE[2] * 65) \div 100
rect_left == (IMAGE_SIZE[1] - rect_width) \div 2
rect_top == (IMAGE_SIZE[2] * 14) \div 100
center_x == IMAGE_SIZE[1] \div 2
datetime_y == rect_top + 50
place_y == rect_top + rect_height - 95
address_y == place_y + 45
available_height == place_y - datetime_y - 100

----------------------------------------------------------------------------
(* Text measurement.  A line is a sequence of words separated by single    *)
(* spaces, a word is a string.  draw.textlength(line, font) of the Bold    *)
(* face is the sum of the advances of its glyphs, scaled by the font size; *)
(* every glyph of a word advances GlyphAdvance font units and a space      *)
(* SpaceAdvance.  Widths are in 1/UnitsPerEm px.                           *)

UnitsPerEm == 1000
GlyphAdvance == 700
SpaceAdvance == 300
YScale == 40

Min(a, b) == IF a <= b THEN a ELSE b

RECURSIVE SumLen(_)
SumLen(line) ==
    IF line = <<>> THEN 0 ELSE Len(Head(line)) + SumLen(Tail(line))

LineUnits(line) ==
    IF line = <<>> THEN 0
    ELSE SumLen(line) * GlyphAdvance + (Len(line) - 1) * SpaceAdvance

textlength(line, size) == LineUnits(line) * size

\* max_width = rect_width * 0.88
max_width == rect_width * 88 * (UnitsPerEm \div 100)

----------------------------------------------------------------------------
(* Titles *)

ShortWord == "Bonn"
MidWord == "EXATEC"
LongWord == "JAHRESHAUPTVERSAMMLUNGSABEND"
OverlongWord == "ABCDEFGHIJKLMNOPQRSTUVWXYZABCDEFGHIJKLMN"
RawWords == {ShortWord, MidWord, LongWord, OverlongWord}

\* str.upper on the words of the model
Upper(word) == IF word = "Bonn" THEN "BONN" ELSE word

RawLines(maxWords) == UNION {[1..k -> RawWords] : k \in 0..maxWords}

TitlesOver(lineSet, maxLines) == UNION {[1..n -> lineSet] : n \in 0..maxLines}

TallTitles ==
    {[i \in 1..n |-> <<w>>] : n \in 1..MaxTallLines, w \in RawWords}

\* two lines of up to two words each
PairTitles == [1..2 -> RawLines(2)]

FitTitles ==
    TitlesOver(RawLines(1), MaxLines)
      \cup {<<line>> : line \in RawLines(MaxWords)}
      \cup PairTitles
      \cup TallTitles
PosterTitles == TitlesOver(RawLines(1), MaxPosterLines)

\* line 409: [line.strip().upper() for line in event_name.split('\n') if line.strip()]
RECURSIVE TitleLines(_)
TitleLines(raw) ==
    IF raw = <<>> THEN <<>>
    ELSE LET line == Head(raw)
             rest == TitleLines(Tail(raw))
         IN IF line = <<>> THEN rest
            ELSE <<[i \in 1..Len(line) |-> Upper(line[i])]>> \o rest

----------------------------------------------------------------------------
(* The title fitter, lines 411-466 *)

\* lines 421-426 of text_fits: line_spacing = font_size * 0.2,
\* total_height = len(lines) * (font_size + line_spacing), in 1/YScale px
FitHeight(lines, size) == Len(lines) * (size * YScale + size * 8)

HeightFits(lines, size) == ~(FitHeight(lines, size) > available_height * YScale)

\* lines 429-431 of text_fits
WidthFits(lines, size) ==
    \A i \in 1..Len(lines) : ~(textlength(lines[i], size) > max_width)

text_fits(lines, size) == HeightFits(lines, size) /\ WidthFits(lines, size)

\* lines 436-440: the value of font_size when the while loop ends
RECURSIVE FindFontSize(_, _)
FindFontSize(lines, size) ==
    IF size >= min_font_size
    THEN IF text_fits(lines, size) THEN size
         ELSE FindFontSize(lines, size - FontStep)
    ELSE size

\* " ".join(event_name_lines).split(), lines 447-449
RECURSIVE Words(_)
Words(lines) == IF lines = <<>> THEN <<>> ELSE Head(lines) \o Words(Tail(lines))

\* lines 456-457: does the word still go on the current line
WordFitsOnLineBroken(current_line, word, size) ==
    textlength(current_line, size) <= max_width

WordFitsOnLine(current_line, word, size) ==
    textlength(Append(current_line, word), size) <= max_width

\* the guard `if current_line` dropped: the line is appended even when empty
CloseLineUnguarded(out, current_line) == Append(out, current_line)

\* lines 460-461 and 465-466: append the completed line, if there is one
CloseLine(out, current_line) ==
    IF current_line # <<>> THEN Append(out, current_line) ELSE out

\* the word that does not fit is dropped instead of opening the next line
StartLineEmpty(word) == <<>>

\* line 462: current_line = [word]
StartLine(word) == <<word>>

\* lines 455-466: the greedy packing loop and the flush of the last line
RECURSIVE WrapWords(_, _, _, _)
WrapWords(words, current_line, out, size) ==
    IF words = <<>>
    THEN CloseLine(out, current_line)
    ELSE LET word == Head(words)
         IN IF WordFitsOnLine(current_line, word, size)
            THEN WrapWords(Tail(words), Append(current_line, word), out, size)
            ELSE WrapWords(Tail(words), StartLine(word),
                           CloseLine(out, current_line), size)

\* lines 436-466: [font_size, lines, wrapped]
FitResult(lines) ==
    LET found == FindFontSize(lines, initial_font_size)
    IN IF found < min_font_size
       THEN [font_size |-> min_font_size,
             lines |-> WrapWords(Words(lines), <<>>, <<>>, min_font_size),
             wrapped |-> TRUE]
       ELSE [font_size |-> found, lines |-> lines, wrapped |-> FALSE]

\* lines 473-475, in 1/YScale px
line_spacing(size) == size * 10
total_height(lines, size) ==
    Len(lines) * (size * YScale + line_spacing(size)) - line_spacing(size)
event_name_y(lines, size) ==
    (datetime_y + 85) * YScale
      + (available_height * YScale - total_height(lines, size)) \div 2

----------------------------------------------------------------------------
(* fetch_background_image, lines 61-106 *)

\* What the remote side does with the two requests of one call.  search: the
\* GET of line 83 ("exception": requests raises; "http_error": raise_for_status
\* raises; "no_photos_key": JSON without 'photos'; "ok": JSON with a list of
\* `photos` entries).  download: the GET of line 97.  body: the bytes of the
\* photo ("image": a complete image; "garbage": not an image, Image.open
\* raises; "truncated": the header identifies an image but the pixel data is
\* cut short; Image.open only reads the header, so it succeeds and the
\* failure surfaces when the pixels are first loaded).
NoNet == [search |-> "none", photos |-> 0, download |-> "none", body |-> "none"]

Worlds ==
    {[search |-> s, photos |-> 0, download |-> "none", body |-> "none"] :
        s \in {"exception", "http_error", "no_photos_key", "ok"}}
    \cup
    {[search |-> "ok", photos |-> n, download |-> d, body |-> "none"] :
        n \in 1..MaxPhotos, d \in {"exception", "http_error"}}
    \cup
    {[search |-> "ok", photos |-> n, download |-> "ok", body |-> b] :
        n \in 1..MaxPhotos, b \in {"image", "garbage", "truncated"}}

\* native resolution of the photo at an index of the result list
PhotoSize(i) ==
    CASE i % 3 = 0 -> <<1920, 1280>>
      [] i % 3 = 1 -> <<1080, 1080>>
      [] OTHER -> <<640, 960>>

\* str.strip on the queries of the model
Strip(q) == IF q = " " THEN "" ELSE q

\* line 92 without the clamp to the last entry
PhotoIndexUnclamped(p, pp, n) == (p - 1) % pp

\* line 92: photo_index = min((page - 1) % per_page, len(photos) - 1)
PhotoIndex(p, pp, n) == Min((p - 1) % pp, n - 1)

\* lines 82-106; every exception inside the try block ends in `return None`
fetch_background_image(q, p, pp, w) ==
    IF w.search # "ok" THEN None
    ELSE IF w.photos = 0 THEN None
    ELSE LET photo_index == PhotoIndex(p, pp, w.photos)
         IN IF photo_index \notin 0..(w.photos - 1) THEN None   \* IndexError
            ELSE IF w.download # "ok" THEN None
            ELSE IF w.body = "garbage" THEN None
            ELSE [kind |-> "image",
                  photo |-> photo_index,
                  size |-> PhotoSize(photo_index),
                  loadable |-> (w.body = "image")]

----------------------------------------------------------------------------
(* Canvases: [kind, size, layers]; layers are in drawing order, a later    *)
(* layer is drawn over the earlier ones.                                   *)

NoResult == [kind |-> "pending"]

WhiteCanvas ==
    [kind |-> "image", size |-> IMAGE_SIZE, layers |-> <<[kind |-> "white"]>>]

\* lines 284-291: resize, tint, blur
PhotoCanvas(img) ==
    [kind |-> "image", size |-> IMAGE_SIZE,
     layers |-> <<[kind |-> "photo", photo |-> img.photo, native |-> img.size],
                  [kind |-> "tint", rgba |-> <<0, 30, 90, 150>>],
                  [kind |-> "blur", radius |-> 2]>>]

Draw(canvas, layer) == [canvas EXCEPT !.layers = Append(@, layer)]

\* lines 300-334: the overlay with rectangle, border and accent stripe
PanelLayers ==
    <<[kind |-> "panel",
       box |-> <<rect_left, rect_top, rect_left + rect_width, rect_top + rect_height>>],
      [kind |-> "border",
       box |-> <<rect_left - border_width, rect_top - border_width,
                 rect_left + rect_width + border_width,
                 rect_top + rect_height + border_width>>],
      [kind |-> "accent",
       box |-> <<rect_left, rect_top, rect_left + rect_width, rect_top + accent_height>>]>>

\* the three rectangles drawn in the opposite order
ComposeOverlayReversed(canvas) ==
    [canvas EXCEPT !.layers = @ \o <<PanelLayers[3], PanelLayers[2], PanelLayers[1]>>]

ComposeOverlay(canvas) == [canvas EXCEPT !.layers = @ \o PanelLayers]

----------------------------------------------------------------------------
(* get_icon, lines 505-537 *)

IconNames == {"clock", "calendar"}
Sessions == {1, 2}
IdleSession == [at |-> "idle", name |-> "clock", got |-> "none"]
NoWebhook == [success |-> FALSE, message |-> "not sent"]
IconDownloads == {"png", "garbage", "non200", "exception"}

\* file: "absent", "valid" (a PNG) or "corrupt" (bytes that are no image, an
\* empty file included).  What a write leaves in the file: the complete PNG,
\* or the file opened with 'wb' (empty) or filled with bytes that are no image.
OtherWrites == {"valid", "corrupt"}

\* the session that runs create_event_image
Self == 1

\* a file found at line 511 is not loaded
AfterCheckNoLoad(file) == IF file = "absent" THEN "download" ELSE "returned"

\* line 511: `if not os.path.exists(icon_path)` enters the download block or
\* goes on to line 529
AfterCheck(file) == IF file = "absent" THEN "download" ELSE "exists"

\* line 524: what f.write(response.content) leaves in the file
Written(body) == IF body = "png" THEN "valid" ELSE "corrupt"

\* lines 530-537: Image.open, convert and resize inside try; None on failure
Opened(file) == IF file = "valid" THEN "icon" ELSE "none"

\* The steps of one call of get_icon by session p.  gi[p].at is the line the
\* call stands before, gi[p].got the downloaded body and then the return
\* value.

\* line 511
IconCheck(p) ==
    /\ gi[p].at = "check"
    /\ gi' = [gi EXCEPT ![p].at = AfterCheck(iconFile[gi[p].name])]
    /\ UNCHANGED <<renderVars, iconFile, mainVars, first, otherWriters, clock_icon>>

\* lines 520-527: requests.get and the test of the status
IconDownload(p) ==
    /\ gi[p].at = "download"
    /\ \E dl \in IconDownloads :
          gi' = CASE dl = "exception" ->                         \* lines 525-527
                       [gi EXCEPT ![p].at = "returned", ![p].got = "none"]
                  [] dl = "non200" ->
                       [gi EXCEPT ![p].at = "exists"]
                  [] OTHER ->                                    \* status 200
                       [gi EXCEPT ![p].at = "truncate", ![p].got = dl]
    /\ UNCHANGED <<renderVars, iconFile, mainVars, first, otherWriters, clock_icon>>

\* line 523: open(icon_path, 'wb') creates the file or empties it
IconTruncate(p) ==
    /\ gi[p].at = "truncate"
    /\ iconFile' = [iconFile EXCEPT ![gi[p].name] = "corrupt"]
    /\ gi' = [gi EXCEPT ![p].at = "write"]
    /\ UNCHANGED <<renderVars, mainVars, first, otherWriters, clock_icon>>

\* line 524 and the end of the with block: the content is written and the
\* file closed; until then the file holds no complete image
IconWrite(p) ==
    /\ gi[p].at = "write"
    /\ iconFile' = [iconFile EXCEPT ![gi[p].name] = Written(gi[p].got)]
    /\ gi' = [gi EXCEPT ![p].at = "exists", ![p].got = "none"]
    /\ UNCHANGED <<renderVars, mainVars, first, otherWriters, clock_icon>>

\* line 529: if os.path.exists(icon_path)
IconExists(p) ==
    /\ gi[p].at = "exists"
    /\ gi' = [gi EXCEPT ![p].at = IF iconFile[gi[p].name] = "absent"
                                  THEN "returned" ELSE "open",
                        ![p].got = "none"]
    /\ UNCHANGED <<renderVars, iconFile, mainVars, first, otherWriters, clock_icon>>

\* lines 530-537
IconOpen(p) ==
    /\ gi[p].at = "open"
    /\ gi' = [gi EXCEPT ![p].at = "returned",
                        ![p].got = Opened(iconFile[gi[p].name])]
    /\ UNCHANGED <<renderVars, iconFile, mainVars, first, otherWriters, clock_icon>>

----------------------------------------------------------------------------
(* add_footer, lines 114-223 *)

LogoStates == {"missing", "corrupt", "ok"}
LogoSize == <<600, 200>>

\* the band placed LOGO_HEIGHT rows above the bottom edge
FooterBandMisplaced ==
    [kind |-> "footer",
     box |-> <<0, IMAGE_SIZE[2] - LOGO_HEIGHT, IMAGE_SIZE[1], IMAGE_SIZE[2]>>,
     logo_pos |-> <<40, (FOOTER_HEIGHT - LOGO_HEIGHT) \div 2>>,
     logo_width |-> (LOGO_HEIGHT * LogoSize[1]) \div LogoSize[2],
     qr_pos |-> <<IMAGE_SIZE[1] - 110 - 35 - 4, (FOOTER_HEIGHT - 110 - 8) \div 2>>,
     separator_x |-> 40 + (LOGO_HEIGHT * LogoSize[1]) \div LogoSize[2] + 40,
     fonts |-> "Montserrat"]

\* lines 117-213: the band that is pasted, with its fixed geometry
FooterBand ==
    LET logo_width == (LOGO_HEIGHT * LogoSize[1]) \div LogoSize[2]
    IN [kind |-> "footer",
        box |-> <<0, IMAGE_SIZE[2] - FOOTER_HEIGHT, IMAGE_SIZE[1], IMAGE_SIZE[2]>>,
        logo_pos |-> <<40, (FOOTER_HEIGHT - LOGO_HEIGHT) \div 2>>,
        logo_width |-> logo_width,
        qr_pos |-> <<IMAGE_SIZE[1] - 110 - 35 - 4, (FOOTER_HEIGHT - 110 - 8) \div 2>>,
        separator_x |-> 40 + logo_width + 40,
        fonts |-> "Montserrat"]

\* a footer appended below the canvas instead of pasted over its bottom rows
FinalImageTaller(image) ==
    [kind |-> "image",
     size |-> <<IMAGE_SIZE[1], IMAGE_SIZE[2] + FOOTER_HEIGHT>>,
     layers |-> Append(image.layers,
                       [FooterBand EXCEPT !.box = <<0, IMAGE_SIZE[2], IMAGE_SIZE[1],
                                                    IMAGE_SIZE[2] + FOOTER_HEIGHT>>])]

\* lines 216-218
FinalImage(image) ==
    [kind |-> "image", size |-> IMAGE_SIZE,
     layers |-> Append(image.layers, FooterBand)]

\* lines 139-148: when FONT_PATH cannot be loaded the texts of the band are
\* drawn with ImageFont.load_default()
WithFooterFonts(final, font_ok) ==
    IF font_ok THEN final
    ELSE [final EXCEPT !.layers[Len(final.layers)].fonts = "default"]

\* the logo check dropped: a missing logo makes Image.open raise
add_footer_unchecked(image, lg, font_ok) ==
    IF lg = "ok"
    THEN [image |-> WithFooterFonts(FinalImage(image), font_ok), errors |-> <<>>]
    ELSE [image |-> None, errors |-> <<"Error adding footer">>]

\* returns the image and the st.error messages
add_footer(image, lg, font_ok) ==
    CASE lg = "missing" ->                                       \* lines 121-123
           [image |-> image, errors |-> <<"Logo not found">>]
      [] lg = "corrupt" ->                                       \* lines 221-223
           [image |-> image, errors |-> <<"Error adding footer">>]
      [] OTHER ->
           [image |-> WithFooterFonts(FinalImage(image), font_ok), errors |-> <<>>]

----------------------------------------------------------------------------
(* create_event_image, lines 276-502 *)

Queries == {NoQuery, " ", "fiesta"}

\* `if query and query.strip()`, line 279
HasQuery(q) == q # NoQuery /\ q # "" /\ Strip(q) # ""

\* the parts of the state that belong to main, to the repeated call and to
\* the concurrent runs of get_icon
InitHarness ==
    /\ variant = 0
    /\ keywords = ""
    /\ auto_publish = FALSE
    /\ images = <<>>
    /\ webhook = NoWebhook
    /\ first = NoResult
    /\ gi = [p \in Sessions |-> IdleSession]
    /\ iconLog = [n \in IconNames |-> [downloads |-> 0, writes |-> 0]]

Init ==
    /\ pc = "idle"
    /\ event_name = <<>>
    /\ query = NoQuery
    /\ page = 1
    /\ per_page = DefaultPerPage
    /\ net = NoNet
    /\ fetched = None
    /\ background = None
    /\ iconFile \in [IconNames -> {"absent", "valid"}]
    /\ event_name_lines = <<>>
    /\ font_size = initial_font_size
    /\ usedWrap = FALSE
    /\ st_errors = <<>>
    /\ logo = "unseen"
    /\ result = NoResult
    /\ font_fault = "none"
    /\ clock_icon = FALSE
    /\ InitHarness
    /\ otherWriters \in [IconNames -> BOOLEAN]
    /\ \A n \in IconNames : otherWriters[n] => iconFile[n] = "absent"

\* main calls create_event_image(time, date, event_name, place, address, query, page)
Call ==
    /\ pc = "idle"
    /\ \E t \in PosterTitles, q \in Queries, p \in 1..MaxPage :
          /\ event_name' = t
          /\ query' = q
          /\ page' = p
    /\ pc' = "background"
    /\ UNCHANGED <<per_page, net, fetched, background, iconFile,
                   event_name_lines, font_size, usedWrap, st_errors, logo, result>>
    /\ UNCHANGED <<font_fault, mainVars, first, gi, iconLog, otherWriters, clock_icon>>

\* lines 279-297
ResolveBackground ==
    /\ pc = "background"
    /\ IF HasQuery(query)
       THEN \E w \in Worlds :
              LET img == fetch_background_image(query, page, per_page, w)
              IN /\ net' = w
                 /\ fetched' = img
                 /\ IF img # None
                    THEN IF img.loadable
                         THEN /\ background' = PhotoCanvas(img)
                              /\ pc' = "panel"
                         ELSE \* background.resize loads the pixels and raises
                              /\ background' = background
                              /\ pc' = "raised"
                    ELSE /\ background' = WhiteCanvas          \* line 294
                         /\ pc' = "panel"
       ELSE /\ background' = WhiteCanvas                       \* line 297
            /\ pc' = "panel"
            /\ UNCHANGED <<net, fetched>>
    /\ UNCHANGED <<event_name, query, page, per_page, iconFile,
                   event_name_lines, font_size, usedWrap, st_errors, logo, result>>
    /\ UNCHANGED <<font_fault, mainVars, first, gi, iconLog, otherWriters, clock_icon>>

\* lines 300-334
ComposePanel ==
    /\ pc = "panel"
    /\ background' = ComposeOverlay(background)
    /\ pc' = "fonts"
    /\ UNCHANGED <<event_name, query, page, per_page, net, fetched, iconFile,
                   event_name_lines, font_size, usedWrap, st_errors, logo, result>>
    /\ UNCHANGED <<font_fault, mainVars, first, gi, iconLog, otherWriters, clock_icon>>

\* lines 340-355
LoadFonts ==
    /\ pc = "fonts"
    /\ \E font_ok \in BOOLEAN :
          IF font_ok
          THEN /\ pc' = "datetime"
               /\ UNCHANGED <<st_errors, result, font_fault>>
          ELSE /\ st_errors' = Append(st_errors, "Error loading fonts")
               /\ result' = None
               /\ font_fault' = "load"
               /\ pc' = "done"
    /\ UNCHANGED <<event_name, query, page, per_page, net, fetched, background,
                   iconFile, event_name_lines, font_size, usedWrap, logo>>
    /\ UNCHANGED <<mainVars, first, gi, iconLog, otherWriters, clock_icon>>

\* line 366: get_icon("clock") is called
CallGetIconClock ==
    /\ pc = "datetime"
    /\ gi[Self].at = "idle"
    /\ gi' = [gi EXCEPT ![Self] = [at |-> "check", name |-> "clock", got |-> "none"]]
    /\ UNCHANGED <<renderVars, iconFile, mainVars, first, iconLog, otherWriters, clock_icon>>

\* a step of the get_icon call this session is in
GetIconStep ==
    /\ pc = "datetime"
    /\ \/ IconCheck(Self)
       \/ IconDownload(Self)
       \/ IconTruncate(Self)
       \/ IconWrite(Self)
       \/ IconExists(Self)
       \/ IconOpen(Self)
    /\ UNCHANGED iconLog

\* lines 366-367: clock_icon is assigned and get_icon("calendar") is called
CallGetIconCalendar ==
    /\ pc = "datetime"
    /\ gi[Self].at = "returned" /\ gi[Self].name = "clock"
    /\ clock_icon' = (gi[Self].got = "icon")
    /\ gi' = [gi EXCEPT ![Self] = [at |-> "check", name |-> "calendar", got |-> "none"]]
    /\ UNCHANGED <<renderVars, iconFile, mainVars, first, iconLog, otherWriters>>

\* lines 367-402: calendar_icon is assigned and the date/time line is drawn,
\* with each icon that get_icon returned
DrawDatetime ==
    /\ pc = "datetime"
    /\ gi[Self].at = "returned" /\ gi[Self].name = "calendar"
    /\ background' = Draw(background,
                          [kind |-> "datetime", y |-> datetime_y,
                           clock_icon |-> clock_icon,
                           calendar_icon |-> (gi[Self].got = "icon")])
    /\ gi' = [gi EXCEPT ![Self] = IdleSession]
    /\ pc' = "fit"
    /\ UNCHANGED <<event_name, query, page, per_page, net, fetched, iconFile,
                   event_name_lines, font_size, usedWrap, st_errors, logo, result>>
    /\ UNCHANGED <<font_fault, mainVars, first, iconLog, otherWriters, clock_icon>>

\* get_icon lines 523-524 in another session that found the icon absent at
\* its line 511: the file is opened with 'wb' (empty from then on) or its
\* write is complete.  The other sessions run on their own, whatever this
\* session is doing.
OtherWrite ==
    /\ \E n \in IconNames, w \in OtherWrites :
          /\ otherWriters[n]
          /\ iconFile[n] # w
          /\ iconFile' = [iconFile EXCEPT ![n] = w]
    /\ UNCHANGED <<renderVars, mainVars, first, gi, iconLog, otherWriters, clock_icon>>

\* lines 404-466.  text_fits (lines 417-418) and the re-wrap (lines 452-453)
\* load FONT_PATH outside any try block: a failure there leaves the function
\* as an exception.
FitTitle ==
    /\ pc = "fit"
    /\ \E font_ok \in BOOLEAN :
          IF font_ok
          THEN LET fit == FitResult(TitleLines(event_name))
               IN /\ font_size' = fit.font_size
                  /\ event_name_lines' = fit.lines
                  /\ usedWrap' = fit.wrapped
                  /\ pc' = "title"
                  /\ UNCHANGED font_fault
          ELSE /\ font_fault' = "fit"
               /\ pc' = "raised"
               /\ UNCHANGED <<font_size, event_name_lines, usedWrap>>
    /\ UNCHANGED <<event_name, query, page, per_page, net, fetched, background,
                   iconFile, st_errors, logo, result>>
    /\ UNCHANGED <<mainVars, first, gi, iconLog, otherWriters, clock_icon>>

\* lines 468-488; lines 469-470 load FONT_PATH outside any try block
DrawTitle ==
    /\ pc = "title"
    /\ \E font_ok \in BOOLEAN :
          IF font_ok
          THEN /\ background' =
                    Draw(background,
                         [kind |-> "title",
                          lines |-> event_name_lines,
                          font_size |-> font_size,
                          y |-> event_name_y(event_name_lines, font_size),
                          step |-> font_size * YScale + line_spacing(font_size)])
               /\ pc' = "place"
               /\ UNCHANGED font_fault
          ELSE /\ font_fault' = "draw"
               /\ pc' = "raised"
               /\ UNCHANGED background
    /\ UNCHANGED <<event_name, query, page, per_page, net, fetched, iconFile,
                   event_name_lines, font_size, usedWrap, st_errors, logo, result>>
    /\ UNCHANGED <<mainVars, first, gi, iconLog, otherWriters, clock_icon>>

\* lines 490-497
DrawPlace ==
    /\ pc = "place"
    /\ background' = Draw(Draw(background, [kind |-> "place", y |-> place_y]),
                          [kind |-> "address", y |-> address_y])
    /\ pc' = "footer"
    /\ UNCHANGED <<event_name, query, page, per_page, net, fetched, iconFile,
                   event_name_lines, font_size, usedWrap, st_errors, logo, result>>
    /\ UNCHANGED <<font_fault, mainVars, first, gi, iconLog, otherWriters, clock_icon>>

\* lines 499-502
AddFooter ==
    /\ pc = "footer"
    /\ \E lg \in LogoStates, font_ok \in BOOLEAN :
          LET out == add_footer(background, lg, font_ok)
          IN /\ logo' = lg
             /\ result' = out.image
             /\ st_errors' = st_errors \o out.errors
             /\ font_fault' = IF lg = "ok" /\ ~font_ok THEN "footer" ELSE font_fault
    /\ pc' = "done"
    /\ UNCHANGED <<event_name, query, page, per_page, net, fetched, background,
                   iconFile, event_name_lines, font_size, usedWrap>>
    /\ UNCHANGED <<mainVars, first, gi, iconLog, otherWriters, clock_icon>>

Next ==
    \/ Call
    \/ ResolveBackground
    \/ ComposePanel
    \/ LoadFonts
    \/ OtherWrite
    \/ CallGetIconClock
    \/ GetIconStep
    \/ CallGetIconCalendar
    \/ DrawDatetime
    \/ FitTitle
    \/ DrawTitle
    \/ DrawPlace
    \/ AddFooter

Spec == Init /\ [][Next]_vars

----------------------------------------------------------------------------
(* The title path alone: create_event_image(..., query=None) as main calls *)
(* it first, from the point where the datetime line has been drawn, over   *)
(* the wide range of titles.                                               *)

InitFit ==
    /\ pc = "fit"
    /\ event_name \in FitTitles
    /\ query = NoQuery
    /\ page = 1
    /\ per_page = DefaultPerPage
    /\ net = NoNet
    /\ fetched = None
    /\ background = Draw(ComposeOverlay(WhiteCanvas),
                         [kind |-> "datetime", y |-> datetime_y,
                          clock_icon |-> TRUE, calendar_icon |-> TRUE])
    /\ iconFile = [n \in IconNames |-> "valid"]
    /\ event_name_lines = <<>>
    /\ font_size = initial_font_size
    /\ usedWrap = FALSE
    /\ st_errors = <<>>
    /\ logo = "unseen"
    /\ result = NoResult
    /\ font_fault = "none"
    /\ clock_icon = TRUE       \* line 366 returned the cached icon
    /\ InitHarness
    /\ otherWriters = [n \in IconNames |-> FALSE]

NextFit ==
    \/ FitTitle
    \/ DrawTitle
    \/ DrawPlace
    \/ AddFooter

FitSpec == InitFit /\ [][NextFit]_vars

----------------------------------------------------------------------------
(* fetch_background_image called on its own *)

InitFetch ==
    /\ pc = "fetch_idle"
    /\ event_name = <<>>
    /\ query = NoQuery
    /\ page = 1
    /\ per_page = DefaultPerPage
    /\ net = NoNet
    /\ fetched = None
    /\ background = None
    /\ iconFile = [n \in IconNames |-> "absent"]
    /\ event_name_lines = <<>>
    /\ font_size = initial_font_size
    /\ usedWrap = FALSE
    /\ st_errors = <<>>
    /\ logo = "unseen"
    /\ result = NoResult
    /\ font_fault = "none"
    /\ clock_icon = FALSE
    /\ InitHarness
    /\ otherWriters = [n \in IconNames |-> FALSE]

FetchCall ==
    /\ pc = "fetch_idle"
    /\ \E q \in {" ", "fiesta"}, p \in 1..MaxFetchPage, pp \in 1..MaxPerPage,
          w \in Worlds :
          /\ query' = q
          /\ page' = p
          /\ per_page' = pp
          /\ net' = w
          /\ fetched' = fetch_background_image(q, p, pp, w)
    /\ pc' = "fetch_done"
    /\ UNCHANGED <<event_name, background, iconFile, event_name_lines,
                   font_size, usedWrap, st_errors, logo, result>>
    /\ UNCHANGED <<font_fault, mainVars, first, gi, iconLog, otherWriters, clock_icon>>

NextFetch == FetchCall

FetchSpec == InitFetch /\ [][NextFetch]_vars

-----------------------------------------------------------------------------
(* get_icon step by step, as two sessions of the app run it at the same    *)
(* time: each session's script runs in a thread of its own and the icon    *)
(* files are shared.                                                       *)

InitIcon ==
    /\ pc = "icons"
    /\ event_name = <<>>
    /\ query = NoQuery
    /\ page = 1
    /\ per_page = DefaultPerPage
    /\ net = NoNet
    /\ fetched = None
    /\ background = None
    /\ iconFile \in [IconNames -> {"absent", "valid"}]
    /\ event_name_lines = <<>>
    /\ font_size = initial_font_size
    /\ usedWrap = FALSE
    /\ st_errors = <<>>
    /\ logo = "unseen"
    /\ result = NoResult
    /\ font_fault = "none"
    /\ clock_icon = FALSE
    /\ InitHarness
    /\ otherWriters = [n \in IconNames |-> FALSE]

\* lines 366-367: get_icon("clock"), get_icon("calendar")
IconCall(p) ==
    /\ gi[p].at = "idle"
    /\ \E n \in IconNames :
          gi' = [gi EXCEPT ![p] = [at |-> "check", name |-> n, got |-> "none"]]
    /\ UNCHANGED <<renderVars, iconFile, mainVars, first, iconLog, otherWriters, clock_icon>>

\* the call has returned; the session may call get_icon again
IconReturn(p) ==
    /\ gi[p].at = "returned"
    /\ gi' = [gi EXCEPT ![p] = IdleSession]
    /\ UNCHANGED <<renderVars, iconFile, mainVars, first, iconLog, otherWriters, clock_icon>>

\* the successful downloads and the writes of the step session p takes
Counted(p) ==
    iconLog' = [iconLog EXCEPT
        ![gi[p].name] =
            [downloads |-> @.downloads +
                 (IF gi[p].at = "download" /\ gi'[p].at = "truncate" THEN 1 ELSE 0),
             writes |-> @.writes + (IF gi[p].at = "write" THEN 1 ELSE 0)]]

NextIcon ==
    \E p \in Sessions :
        \/ IconCall(p)
        \/ IconCheck(p) /\ Counted(p)
        \/ IconDownload(p) /\ Counted(p)
        \/ IconTruncate(p) /\ Counted(p)
        \/ IconWrite(p) /\ Counted(p)
        \/ IconExists(p) /\ Counted(p)
        \/ IconOpen(p) /\ Counted(p)
        \/ IconReturn(p)

IconSpec == InitIcon /\ [][NextIcon]_vars

-----------------------------------------------------------------------------
(* send_webhook, lines 539-604 *)

\* what saving the image and requests.post can do: raise, or answer
WebhookStatuses == {200, 201, 404, 500}
WebhookResponses ==
    {[raised |-> r, status_code |-> 0] : r \in {"encoding", "network", "timeout"}}
      \cup {[raised |-> "none", status_code |-> c] : c \in WebhookStatuses}

\* every 2xx answer taken for a success
StatusAcceptedAny2xx(status_code) == status_code \div 100 = 2

\* line 596
StatusAccepted(status_code) == status_code = 200

\* The whole body is inside try (lines 550-604).  Lines 554-557 build a new
\* RGB image and rebind the local name; the image passed in is not written.
send_webhook(image, resp) ==
    IF resp.raised # "none"
    THEN [success |-> FALSE, message |-> "Error preparing data",      \* lines 600-604
          errors |-> <<"Error: webhook exception">>, image |-> image]
    ELSE IF StatusAccepted(resp.status_code)
         THEN [success |-> TRUE, message |-> "Event successfully published!",
               errors |-> <<>>, image |-> image]
         ELSE [success |-> FALSE, message |-> "Error: status",          \* line 599
               errors |-> <<>>, image |-> image]

-----------------------------------------------------------------------------
(* main, lines 718-818: one click on Generate *)

\* a title of two lines, as the default of the form
MainTitles == {<< <<MidWord>>, <<ShortWord>> >>}
Keywords == {"", " ", "fiesta"}
VariationPages == 1..3                                            \* range(1, 4)

\* `if white_bg_image:`, `if image:`
Truthy(image) == image # None

\* the second component of the tuples of lines 752 and 773
VersionLabel(page_num) ==
    IF page_num = 0
    THEN [text |-> "White Background", page_num |-> 0]
    ELSE [text |-> "Background Variation", page_num |-> page_num]

Entry(image, page_num) == [image |-> image.kind, version |-> VersionLabel(page_num)]

\* the new entry put in front of the list
CollectInFront(imgs, image, page_num) ==
    IF Truthy(image) THEN <<Entry(image, page_num)>> \o imgs ELSE imgs

\* lines 751-752 and 772-773
Collect(imgs, image, page_num) ==
    IF Truthy(image) THEN Append(imgs, Entry(image, page_num)) ELSE imgs

\* a call of create_event_image(..., query=q, page=p) starts with fresh locals
StartRender(q, p) ==
    /\ query' = q
    /\ page' = p
    /\ pc' = "background"
    /\ net' = NoNet
    /\ fetched' = None
    /\ background' = None
    /\ event_name_lines' = <<>>
    /\ font_size' = initial_font_size
    /\ usedWrap' = FALSE
    /\ logo' = "unseen"
    /\ result' = NoResult
    /\ font_fault' = "none"
    /\ clock_icon' = FALSE

InitMain ==
    /\ pc = "main_idle"
    /\ event_name = <<>>
    /\ query = NoQuery
    /\ page = 1
    /\ per_page = DefaultPerPage
    /\ net = NoNet
    /\ fetched = None
    /\ background = None
    /\ iconFile \in [IconNames -> {"absent", "valid"}]
    /\ event_name_lines = <<>>
    /\ font_size = initial_font_size
    /\ usedWrap = FALSE
    /\ st_errors = <<>>
    /\ logo = "unseen"
    /\ result = NoResult
    /\ font_fault = "none"
    /\ clock_icon = FALSE
    /\ InitHarness
    \* at most one other session is about to write, and it writes clock.png
    /\ \E b \in BOOLEAN : otherWriters = [n \in IconNames |-> b /\ n = "clock"]
    /\ \A n \in IconNames : otherWriters[n] => iconFile[n] = "absent"

\* lines 718-729: the white variant is rendered first, query=None, page=1
MainGenerate ==
    /\ pc = "main_idle"
    /\ \E t \in MainTitles, k \in Keywords, ap \in BOOLEAN :
          /\ event_name' = t
          /\ keywords' = k
          /\ auto_publish' = ap
    /\ variant' = 0
    /\ StartRender(NoQuery, 1)
    /\ UNCHANGED <<per_page, iconFile, st_errors, images, webhook, first, gi, iconLog, otherWriters>>

\* lines 731-747
MainPublish ==
    /\ pc = "done"
    /\ variant = 0
    /\ IF auto_publish /\ Truthy(result)
       THEN \E resp \in WebhookResponses :
              LET out == send_webhook(result, resp)
              IN /\ webhook' = [success |-> out.success, message |-> out.message,
                                response |-> resp]
                 /\ result' = out.image
                 /\ st_errors' = st_errors \o out.errors
       ELSE UNCHANGED <<webhook, result, st_errors>>
    /\ pc' = "listing"
    /\ UNCHANGED <<event_name, query, page, per_page, net, fetched, background,
                   iconFile, event_name_lines, font_size, usedWrap, logo, font_fault>>
    /\ UNCHANGED <<variant, keywords, auto_publish, images, first, gi, iconLog, otherWriters, clock_icon>>

\* lines 749-770: the list is started, then the first variation is rendered
MainList ==
    /\ pc = "listing"
    /\ images' = Collect(<<>>, result, 0)
    /\ IF Strip(keywords) # ""
       THEN /\ variant' = 1
            /\ StartRender(keywords, 1)
       ELSE /\ pc' = "display"
            /\ UNCHANGED <<variant, query, page, net, fetched, background,
                           event_name_lines, font_size, usedWrap, logo, result,
                           font_fault, clock_icon>>
    /\ UNCHANGED <<event_name, per_page, iconFile, st_errors>>
    /\ UNCHANGED <<keywords, auto_publish, webhook, first, gi, iconLog, otherWriters>>

\* lines 760-773: a variation has been rendered; the loop goes on
MainCollect ==
    /\ pc = "done"
    /\ variant \in VariationPages
    /\ images' = Collect(images, result, variant)
    /\ IF variant + 1 \in VariationPages
       THEN /\ variant' = variant + 1
            /\ StartRender(keywords, variant + 1)
       ELSE /\ pc' = "display"
            /\ UNCHANGED <<variant, query, page, net, fetched, background,
                           event_name_lines, font_size, usedWrap, logo, result,
                           font_fault, clock_icon>>
    /\ UNCHANGED <<event_name, per_page, iconFile, st_errors>>
    /\ UNCHANGED <<keywords, auto_publish, webhook, first, gi, iconLog, otherWriters>>

\* lines 775-818
MainDisplay ==
    /\ pc = "display"
    /\ st_errors' = IF images # <<>> THEN st_errors
                    ELSE Append(st_errors, "Could not generate any images")
    /\ pc' = "main_done"
    /\ UNCHANGED <<event_name, query, page, per_page, net, fetched, background,
                   iconFile, event_name_lines, font_size, usedWrap, logo, result,
                   font_fault, mainVars, first, gi, iconLog, otherWriters, clock_icon>>

\* an exception that left create_event_image leaves main as well: the run of
\* the script ends where it is
MainAbort ==
    /\ pc = "raised"
    /\ pc' = "aborted"
    /\ UNCHANGED <<event_name, query, page, per_page, net, fetched, background,
                   iconFile, event_name_lines, font_size, usedWrap, st_errors,
                   logo, result, font_fault, mainVars, first, gi, iconLog, otherWriters, clock_icon>>

NextMain ==
    \/ MainGenerate
    \/ ResolveBackground
    \/ ComposePanel
    \/ LoadFonts
    \/ OtherWrite
    \/ CallGetIconClock
    \/ GetIconStep
    \/ CallGetIconCalendar
    \/ DrawDatetime
    \/ FitTitle
    \/ DrawTitle
    \/ DrawPlace
    \/ AddFooter
    \/ MainPublish
    \/ MainList
    \/ MainCollect
    \/ MainDisplay
    \/ MainAbort

MainSpec == InitMain /\ [][NextMain]_vars

-----------------------------------------------------------------------------
(* create_event_image called twice with the same arguments: Generate is    *)
(* clicked again with the form unchanged.                                  *)

\* a title of one line at the first size and one that is re-wrapped
RepeatTitles == {<< <<ShortWord>> >>, << <<MidWord, LongWord>>, <<ShortWord>> >>}
RepeatQueries == {NoQuery, "fiesta"}

InitRepeat ==
    /\ pc = "repeat_idle"
    /\ event_name = <<>>
    /\ query = NoQuery
    /\ page = 1
    /\ per_page = DefaultPerPage
    /\ net = NoNet
    /\ fetched = None
    /\ background = None
    /\ iconFile \in [IconNames -> {"absent", "valid"}]
    /\ event_name_lines = <<>>
    /\ font_size = initial_font_size
    /\ usedWrap = FALSE
    /\ st_errors = <<>>
    /\ logo = "unseen"
    /\ result = NoResult
    /\ font_fault = "none"
    /\ clock_icon = FALSE
    /\ InitHarness
    /\ otherWriters \in [IconNames -> BOOLEAN]
    /\ \A n \in IconNames : otherWriters[n] => iconFile[n] = "absent"

FirstCall ==
    /\ pc = "repeat_idle"
    /\ \E t \in RepeatTitles, q \in RepeatQueries :
          /\ event_name' = t
          /\ StartRender(q, 1)
    /\ UNCHANGED <<per_page, iconFile, st_errors, mainVars, first, gi, iconLog, otherWriters>>

\* the first call has returned; what it returned and what it met is kept
\* and the same call is made again
SecondCall ==
    /\ pc = "done"
    /\ first = NoResult
    /\ first' = [result |-> result, fetched |-> fetched, iconFile |-> iconFile,
                 logo |-> logo, font_fault |-> font_fault]
    /\ StartRender(query, page)
    /\ UNCHANGED <<event_name, per_page, iconFile, st_errors, mainVars, gi, iconLog, otherWriters>>

NextRepeat ==
    \/ FirstCall
    \/ ResolveBackground
    \/ ComposePanel
    \/ LoadFonts
    \/ OtherWrite
    \/ CallGetIconClock
    \/ GetIconStep
    \/ CallGetIconCalendar
    \/ DrawDatetime
    \/ FitTitle
    \/ DrawTitle
    \/ DrawPlace
    \/ AddFooter
    \/ SecondCall

RepeatSpec == InitRepeat /\ [][NextRepeat]_vars

----------------------------------------------------------------------------
(* Vocabulary of the properties *)

PastFit == pc \in {"title", "place", "footer", "done"}

\* the title lines as line 409 leaves them
OriginalLines == TitleLines(event_name)

\* the sizes the descending search visits
StepSizes ==
    {s \in min_font_size..initial_font_size : (initial_font_size - s) % FontStep = 0}

SetMax(S) == CHOOSE m \in S : \A x \in S : x <= m

\* a word wider than max_width at min_font_size
Overlong(word) == textlength(<<word>>, min_font_size) > max_width

\* both bounds of the panel, the height as the layout computes it (line 474)
FitsPanel(lines, size) ==
    /\ \A i \in 1..Len(lines) : textlength(lines[i], size) <= max_width
    /\ total_height(lines, size) <= available_height * YScale

Last(seq) == seq[Len(seq)]

HasLayer(img, k) == \E i \in 1..Len(img.layers) : img.layers[i].kind = k

LayerOf(img, k) == img.layers[CHOOSE i \in 1..Len(img.layers) : img.layers[i].kind = k]

----------------------------------------------------------------------------
(* C1: the size and lines used to draw the title satisfy both bounds:      *)
(* every line is at most max_width wide and the block, as the layout       *)
(* computes its height, is at most available_height tall.                  *)
(* Stated for the titles none of whose words is overlong, the case the     *)
(* re-wrap cannot help.                                                    *)
C1_DrawnTitleFitsPanel ==
    (PastFit /\ \A k \in 1..Len(Words(OriginalLines)) :
                  ~Overlong(Words(OriginalLines)[k]))
      => FitsPanel(event_name_lines, font_size)

(* C2: the descending search returns the largest size of the step          *)
(* sequence at which the title fits both bounds; a title that fits at      *)
(* initial_font_size keeps that size and its lines.                        *)
C2_LargestFittingSize ==
    PastFit =>
      LET fitting == {s \in StepSizes : FitsPanel(OriginalLines, s)}
      IN /\ fitting # {} =>
              /\ ~usedWrap
              /\ font_size = SetMax(fitting)
              /\ event_name_lines = OriginalLines
         /\ FitsPanel(OriginalLines, initial_font_size) =>
              /\ font_size = initial_font_size
              /\ event_name_lines = OriginalLines

(* C3: the re-wrap runs only when the original lines fail the fit check at *)
(* every size from min_font_size to initial_font_size, min_font_size       *)
(* included; lines that fit at some size of that range are kept.           *)
C3_WrapOnlyWhenNothingFits ==
    PastFit =>
      LET fitsSomewhere ==
            \E s \in min_font_size..initial_font_size : text_fits(OriginalLines, s)
      IN /\ usedWrap => ~fitsSomewhere
         /\ fitsSomewhere => event_name_lines = OriginalLines

(* C4: after the re-wrap every line of more than one word, and every       *)
(* one-word line whose word is not overlong, is at most max_width wide at  *)
(* min_font_size.                                                          *)
C4_WrappedLinesFit ==
    (PastFit /\ usedWrap) =>
      \A i \in 1..Len(event_name_lines) :
         LET line == event_name_lines[i]
         IN (Len(line) > 1 \/ ~Overlong(line[1])) =>
               textlength(line, min_font_size) <= max_width

C4_Witness ==
    /\ PastFit /\ usedWrap
    /\ \E i \in 1..Len(event_name_lines) : Len(event_name_lines[i]) > 1
    /\ \E i \in 1..Len(event_name_lines) :
          /\ Len(event_name_lines[i]) = 1
          /\ Overlong(event_name_lines[i][1])

(* C5: in the re-wrap an overlong word stands alone on its line, unsplit   *)
(* and unchanged; a title that is one overlong word takes the re-wrap and  *)
(* ends as exactly that one line; no line is empty and the render returns  *)
(* an image that carries that title.                                       *)
C5_OverlongWordAlone ==
    PastFit =>
      /\ \A i \in 1..Len(event_name_lines) : event_name_lines[i] # <<>>
      /\ usedWrap =>
           /\ \A i \in 1..Len(event_name_lines) :
                 \A j \in 1..Len(event_name_lines[i]) :
                    Overlong(event_name_lines[i][j]) => Len(event_name_lines[i]) = 1
           /\ \A k \in 1..Len(Words(OriginalLines)) :
                 Overlong(Words(OriginalLines)[k]) =>
                    \E i \in 1..Len(event_name_lines) :
                       event_name_lines[i] = <<Words(OriginalLines)[k]>>
      /\ (Len(OriginalLines) = 1 /\ Len(OriginalLines[1]) = 1
            /\ Overlong(OriginalLines[1][1])) =>
           /\ usedWrap
           /\ event_name_lines = <<<<OriginalLines[1][1]>>>>
           /\ pc = "done" =>
                /\ result.kind = "image"
                /\ LayerOf(result, "title").lines = <<<<OriginalLines[1][1]>>>>

C5_Witness ==
    /\ pc = "done"
    /\ OriginalLines = <<<<OverlongWord>>>>
    /\ usedWrap
    /\ result.kind = "image"

(* C6: with a non-empty query every failure of the background acquisition *)
(* (search request fails, non-2xx, no photos, download fails, image cannot *)
(* be decoded) makes fetch_background_image return None, nothing is raised *)
(* to create_event_image, the render goes on over the white canvas and     *)
(* returns a poster.                                                       *)
AcquisitionFailed ==
    \/ net.search \in {"exception", "http_error", "no_photos_key"}
    \/ net.search = "ok" /\ net.photos = 0
    \/ net.download \in {"exception", "http_error"}
    \/ net.body \in {"garbage", "truncated"}

FontsFailed ==
    \E i \in 1..Len(st_errors) : st_errors[i] = "Error loading fonts"

C6_FetchFailureFallsBack ==
    (HasQuery(query) /\ pc \notin {"idle", "background"} /\ AcquisitionFailed) =>
      /\ fetched = None
      /\ (pc = "raised" => font_fault # "none")
      /\ background.kind = "image" /\ background.layers[1].kind = "white"
      /\ (pc = "done" /\ ~FontsFailed) => result.kind = "image"

(* C7: fetch_background_image selects the candidate at index               *)
(* (page - 1) mod per_page and returns None when that index is beyond the  *)
(* result list, never another candidate.                                   *)
FetchDelivered ==
    /\ pc = "fetch_done"
    /\ net.search = "ok" /\ net.photos > 0
    /\ net.download = "ok" /\ net.body = "image"

C7_NoneWhenOutOfRange ==
    FetchDelivered =>
      LET index == (page - 1) % per_page
      IN IF index < net.photos
         THEN fetched # None /\ fetched.photo = index
         ELSE fetched = None

(* C7 as amended: the index is clamped to the last entry of a non-empty    *)
(* list; None is returned only when the list is empty or absent or a       *)
(* request or the decoding fails.                                          *)
C7_ClampedIndex ==
    pc = "fetch_done" =>
      LET index == (page - 1) % per_page
          wanted == IF index < net.photos THEN index ELSE net.photos - 1
          failed == \/ net.search # "ok"
                    \/ net.photos = 0
                    \/ net.download # "ok"
                    \/ net.body = "garbage"
      IN IF failed THEN fetched = None
         ELSE fetched # None /\ fetched.photo = wanted

C7_Witness ==
    /\ FetchDelivered
    /\ (page - 1) % per_page >= net.photos
    /\ fetched # None
    /\ fetched.photo = net.photos - 1

(* C8: every image create_event_image returns is exactly 1080x1080,        *)
(* whatever the resolution of the background, with and without footer.     *)
C8_OutputSize ==
    (pc = "done" /\ result # None) =>
      /\ result.kind = "image"
      /\ result.size = <<1080, 1080>>

C8_Witness ==
    /\ pc = "done"
    /\ result.kind = "image"
    /\ HasLayer(result, "photo")
    /\ LayerOf(result, "photo").native = <<640, 960>>
    /\ HasLayer(result, "footer")

(* C9: in every poster returned the footer band occupies the bottom 160    *)
(* rows across the full width, the same for every title.                   *)
ExpectedBand ==
    [kind |-> "footer", box |-> <<0, 920, 1080, 1080>>,
     logo_pos |-> <<40, 20>>, logo_width |-> 360,
     qr_pos |-> <<931, 21>>, separator_x |-> 440,
     fonts |-> "Montserrat"]

C9_FooterAlways ==
    (pc = "done" /\ result.kind = "image") => Last(result.layers) = ExpectedBand

(* C9 as amended: when add_footer found the logo and completed, the band   *)
(* is composited last over the bottom 160 rows across the full width and   *)
(* is the same for every title; otherwise the poster carries no band.      *)
C9_FooterWhenComposed ==
    (pc = "done" /\ result.kind = "image") =>
      IF logo = "ok"
      THEN /\ Last(result.layers) =
                [ExpectedBand EXCEPT !.fonts = IF font_fault = "footer"
                                               THEN "default" ELSE "Montserrat"]
           /\ \A i \in 1..(Len(result.layers) - 1) : result.layers[i].kind # "footer"
           /\ HasLayer(result, "title")
      ELSE ~HasLayer(result, "footer")

C9_Witness ==
    /\ pc = "done"
    /\ logo = "ok"
    /\ usedWrap
    /\ Len(event_name_lines) > 1
    /\ Last(result.layers) = ExpectedBand

(* C10: with the logo missing add_footer reports it and returns the canvas *)
(* it was given unchanged, and create_event_image returns that image.      *)
C10_MissingLogo ==
    (pc = "done" /\ logo = "missing") =>
      /\ result = background
      /\ result.kind = "image"
      /\ ~HasLayer(result, "footer")
      /\ Last(st_errors) = "Logo not found"

C10_Witness ==
    /\ pc = "done"
    /\ logo = "missing"
    /\ result.kind = "image"
    /\ HasLayer(result, "title")

-----------------------------------------------------------------------------
(* C11: a failure to load the font at any place of a render is fatal to    *)
(* that render only: create_event_image does not raise, it surfaces an     *)
(* error and returns None, never a drawn poster.                           *)
C11_FontFailureFatalToRenderOnly ==
    (font_fault # "none") =>
      /\ pc # "raised"
      /\ (pc = "done" => result = None /\ FontsFailed)

-----------------------------------------------------------------------------
(* C16: the canvas is prepared first (photo, tint and blur exactly when a  *)
(* background was fetched, a white canvas otherwise), then the panel, the  *)
(* border and the accent stripe are drawn in this order on both paths and  *)
(* before any text, and where two of these steps cover the same pixel the  *)
(* later one shows.                                                        *)
TextKinds == {"datetime", "title", "place", "address"}
PanelKinds == <<"panel", "border", "accent">>
Kinds(img) == [i \in 1..Len(img.layers) |-> img.layers[i].kind]
PrepKinds == IF fetched # None THEN <<"photo", "tint", "blur">> ELSE <<"white">>

InBox(box, pt) ==
    /\ box[1] <= pt[1] /\ pt[1] <= box[3]
    /\ box[2] <= pt[2] /\ pt[2] <= box[4]

\* the pixels a step writes: the filled rectangles of lines 311-314 and
\* 329-331, the outline of width border_width of lines 318-323 (drawn inward
\* from its box), every pixel for the steps of lines 284-297
Covers(layer, pt) ==
    CASE layer.kind \in {"panel", "accent"} -> InBox(layer.box, pt)
      [] layer.kind = "border" ->
           /\ InBox(layer.box, pt)
           /\ ~InBox(<<layer.box[1] + border_width, layer.box[2] + border_width,
                       layer.box[3] - border_width, layer.box[4] - border_width>>, pt)
      [] OTHER -> TRUE

\* the step whose pixel shows at pt once the text is left aside
TopLayerAt(img, pt) ==
    img.layers[SetMax({i \in 1..Len(img.layers) :
                         /\ img.layers[i].kind \notin TextKinds
                         /\ Covers(img.layers[i], pt)})].kind

OnAccent == <<540, 154>>
OnPanel == <<540, 500>>
OnBorder == <<79, 500>>
Outside == <<10, 10>>

Composed ==
    \/ pc \in {"fonts", "datetime", "fit", "title", "place", "footer", "done"}
    \/ pc = "raised" /\ font_fault # "none"

C16_CompositingOrder ==
    /\ (pc = "panel") => Kinds(background) = PrepKinds
    /\ Composed =>
         LET k == Kinds(background)
             n == Len(PrepKinds)
         IN /\ Len(k) >= n + 3
            /\ SubSeq(k, 1, n + 3) = PrepKinds \o PanelKinds
            /\ \A i \in (n + 4)..Len(k) : k[i] \in TextKinds
            /\ TopLayerAt(background, OnAccent) = "accent"
            /\ TopLayerAt(background, OnPanel) = "panel"
            /\ TopLayerAt(background, OnBorder) = "border"
            /\ TopLayerAt(background, Outside) = Last(PrepKinds)

C16_Witness ==
    /\ pc = "done"
    /\ fetched # None
    /\ result.kind = "image"
    /\ HasLayer(background, "tint")
    /\ HasLayer(background, "title")

-----------------------------------------------------------------------------
(* C17: the vertical midpoint of the drawn title block, from the top of    *)
(* the first line to the bottom of the last line with the lines drawn      *)
(* middle-anchored, is the midpoint between datetime_y and place_y.        *)
\* lines 479-488, in 1/YScale px: anchor "mm" puts the middle of a line at
\* current_y, which starts at event_name_y and advances by the step
TitleBlockTop(title) == title.y - (title.font_size * YScale) \div 2
TitleBlockBottom(title) ==
    title.y + (Len(title.lines) - 1) * title.step + (title.font_size * YScale) \div 2

C17_TitleBlockCentred ==
    HasLayer(background, "title") =>
      LET title == LayerOf(background, "title")
      IN TitleBlockTop(title) + TitleBlockBottom(title)
           = (datetime_y + place_y) * YScale

-----------------------------------------------------------------------------
(* C18: the re-wrap keeps the words: the words of the wrapped lines read   *)
(* in order are the words of the original title lines read in order, and   *)
(* no wrapped line is empty.                                               *)
C18_RewrapKeepsWords ==
    (PastFit /\ usedWrap) =>
      /\ Words(event_name_lines) = Words(OriginalLines)
      /\ \A i \in 1..Len(event_name_lines) : event_name_lines[i] # <<>>

C18_Witness ==
    /\ PastFit
    /\ usedWrap
    /\ Len(event_name_lines) # Len(OriginalLines)
    /\ Len(Words(OriginalLines)) >= 3
    /\ \E i \in 1..Len(event_name_lines) : Len(event_name_lines[i]) >= 2

-----------------------------------------------------------------------------
(* C12: send_webhook reports success exactly when the POST answered with   *)
(* status 200, reports a failure for every other status and for every      *)
(* exception without raising, and neither the image passed in nor the list *)
(* of images is changed by the publish step, failed or not.  The steps of  *)
(* main are those that move pc; other sessions' writes leave it alone.     *)
PublishStep == pc = "done" /\ variant = 0 /\ auto_publish /\ Truthy(result)

C12_WebhookOutcome ==
    [][/\ (PublishStep /\ pc' # pc) =>
            /\ pc' = "listing"
            /\ webhook' # NoWebhook
            /\ webhook'.success <=> (/\ webhook'.response.raised = "none"
                                     /\ webhook'.response.status_code = 200)
            /\ result' = result
            /\ images' = images
       /\ (pc = "listing" /\ pc' # pc) =>
            images' = IF result = None THEN <<>>
                      ELSE <<[image |-> "image",
                              version |-> [text |-> "White Background",
                                           page_num |-> 0]]>>
      ]_vars

C12_Witness ==
    /\ pc = "main_done"
    /\ webhook # NoWebhook
    /\ ~webhook.success
    /\ webhook.response.status_code = 201
    /\ Len(images) >= 2
    /\ images[1].version.text = "White Background"

-----------------------------------------------------------------------------
(* C14: the list main displays is in request order: the white variant      *)
(* first, then the variations by increasing page number, each with its own *)
(* label; a variant without image is left out and nothing appears twice.   *)
ListLabels ==
    {[text |-> "White Background", page_num |-> 0],
     [text |-> "Background Variation", page_num |-> 1],
     [text |-> "Background Variation", page_num |-> 2],
     [text |-> "Background Variation", page_num |-> 3]}

Listed(page_num) ==
    \E i \in 1..Len(images) : images[i].version.page_num = page_num

C14_ListInRequestOrder ==
    /\ \A i \in 1..Len(images) :
          /\ images[i].image = "image"
          /\ images[i].version \in ListLabels
          /\ images[i].version.page_num <= variant
    /\ \A i, j \in 1..Len(images) :
          i < j => images[i].version.page_num < images[j].version.page_num
    /\ (pc \in {"display", "main_done"}) => (Listed(variant) <=> Truthy(result))

C14_Witness ==
    /\ pc = "main_done"
    /\ Len(images) = 3
    /\ images[1].version.page_num = 0
    /\ images[2].version.page_num = 1
    /\ images[3].version.page_num = 3

-----------------------------------------------------------------------------
(* C15: for each icon name get_icon makes at most one successful remote    *)
(* fetch and one write of the cached file, also when two sessions call it  *)
(* for the same absent icon at the same time.                              *)
C15_FetchOncePerIcon ==
    \A n \in IconNames :
        /\ iconLog[n].downloads <= 1
        /\ iconLog[n].writes <= 1

-----------------------------------------------------------------------------
(* C13: two calls of create_event_image with the same event fields and the *)
(* same resolved background return identical output, whatever the state of *)
(* the icon cache and the outcome of the icon downloads.  Stated for calls *)
(* that met the same logo and the same font behaviour.                     *)
SecondDone == pc = "done" /\ first # NoResult

C13_SameOutputWhateverIcons ==
    (/\ SecondDone
     /\ first.fetched = fetched
     /\ first.logo = logo
     /\ first.font_fault = font_fault) => result = first.result

(* C13 as amended: the two outputs are identical when, besides the event   *)
(* fields and the resolved background, no other session writes the icon    *)
(* files, each icon was available to both calls or to neither (its file a  *)
(* valid image once get_icon returned) and the logo and the font loads     *)
(* behaved alike.                                                          *)
C13_SameOutputSameAssets ==
    (/\ SecondDone
     /\ \A n \in IconNames : ~otherWriters[n]
     /\ first.fetched = fetched
     /\ first.iconFile = iconFile
     /\ first.logo = logo
     /\ first.font_fault = font_fault) => result = first.result

C13_Witness ==
    /\ SecondDone
    /\ \A n \in IconNames : ~otherWriters[n]
    /\ first.fetched = fetched /\ fetched # None
    /\ first.iconFile = iconFile
    /\ iconFile["clock"] = "valid" /\ iconFile["calendar"] = "absent"
    /\ first.logo = logo /\ logo = "ok"
    /\ first.font_fault = font_fault
    /\ result.kind = "image"
    /\ result = first.result

====
